---- MODULE Spec2Model ----
(***************************************************************************)
(* A model of the two back ends of the mini-compiler:                      *)
(*   - the bytecode emitter and its stack VM   (src/src/codegen_bytecode.rs)*)
(*   - the native (LLVM) lowering engine       (src/src/codegen_llvm.rs)   *)
(* over the AST of src/src/ast.rs.                                         *)
(***************************************************************************)
EXTENDS Integers, Sequences, FiniteSets, TLC

VARIABLES
    program,          \* the ast::Program handed to a back end (its statements)
    overflow_checks,  \* build profile of the VM: TRUE = debug (checked i32 arithmetic)
    code,             \* VM.code
    ip,               \* VM.ip (0-based)
    stack,            \* VM.stack (top = end)
    vars,             \* VM.vars : name -> i32
    status,           \* "init" | "running" | "halted" | "ended" | "panicked" | "compile_panic"
    panic,            \* the panic message, "" while none
    module,           \* LLVMCodegen.module: the functions, each with its basic blocks
    builder,          \* LLVMCodegen.builder: the insertion block (None before positioning)
    function,         \* LLVMCodegen.function: Option of the index of the current function
    vars_stack,       \* LLVMCodegen.vars_stack: scopes, innermost last, name -> slot
    next_val,         \* the next fresh LLVM value (identity of the next built instruction)
    work,             \* what is left to do of the compile_stmt / compile_expr calls in progress
    vals,             \* the values returned by the compile_expr calls completed and not yet used
    cg_status,        \* "new" | "lowering" | "done" | "panicked"
    cg_panic,         \* the panic message of the lowering, "" while none
    native            \* an execution of the lowered 'main' by the backend's target

vmvars == <<code, ip, stack, vars, status, panic>>
cgvars == <<module, builder, function, vars_stack, next_val, work, vals, cg_status, cg_panic>>
allvars == <<program, overflow_checks, code, ip, stack, vars, status, panic,
             module, builder, function, vars_stack, next_val, work, vals, cg_status, cg_panic,
             native>>

(***************************************************************************)
(* Bounds of the model.                                                    *)
(***************************************************************************)
MaxNodes == 3      \* statement nodes of a program given to the bytecode emitter
MaxCode  == 3      \* length of a raw instruction sequence given to the VM
MaxStack == 4      \* operand-stack depth explored for raw instruction sequences
MaxVal == 3        \* magnitude of the operands explored for raw instruction sequences
MaxLNodes == 3     \* statement nodes of a program given to the native lowering
MaxOps == 2        \* binary operators of an expression given to both back ends
MaxANodes == 2     \* statement nodes of a program given to both compile_program functions

(***************************************************************************)
(* i32 arithmetic.  Rust's i32: + - * panic on overflow when overflow      *)
(* checks are compiled in and wrap otherwise; / panics on a zero divisor   *)
(* and on MIN / -1 in every build.                                         *)
(***************************************************************************)
I32Max == 2147483647
I32Min == (-I32Max) - 1

AddOverflows(a, b) == \/ (b > 0 /\ a > I32Max - b)
                      \/ (b < 0 /\ a < I32Min - b)

WrapAdd(a, b) ==
    IF b > 0 /\ a > I32Max - b THEN ((a - I32Max) - 1) + ((b - I32Max) - 1)
    ELSE IF b < 0 /\ a < I32Min - b THEN ((a + I32Max) + 1) + ((b + I32Max) + 1)
    ELSE a + b

WrapNeg(a) == IF a = I32Min THEN I32Min ELSE -a

SubOverflows(a, b) == \/ (b < 0 /\ a > I32Max + b)
                      \/ (b > 0 /\ a < I32Min + b)

WrapSub(a, b) == IF b = I32Min THEN WrapAdd(a, I32Min) ELSE WrapAdd(a, -b)

Abs(a) == IF a < 0 THEN -a ELSE a

MulOverflows(a, b) ==
    IF a = 0 \/ b = 0 \/ a = 1 \/ b = 1 THEN FALSE
    ELSE IF a = -1 THEN b = I32Min
    ELSE IF b = -1 THEN a = I32Min
    ELSE IF a = I32Min \/ b = I32Min THEN TRUE
    ELSE IF (a < 0) = (b < 0) THEN Abs(a) > I32Max \div Abs(b)
    ELSE LET m == Abs(b)
             lim == (I32Max \div m) + (IF I32Max % m = m - 1 THEN 1 ELSE 0)
         IN  Abs(a) > lim

\* the low 32 bits of the product, by the bytes of the two's complement operands
Byte(a, i) == CASE i = 0 -> a % 256
                [] i = 1 -> (a \div 256) % 256
                [] i = 2 -> (a \div 65536) % 256
                [] i = 3 -> (a \div 16777216) % 256

WrapMul(a, b) ==
    LET c0 == Byte(a, 0) * Byte(b, 0)
        c1 == Byte(a, 0) * Byte(b, 1) + Byte(a, 1) * Byte(b, 0)
        c2 == Byte(a, 0) * Byte(b, 2) + Byte(a, 1) * Byte(b, 1) + Byte(a, 2) * Byte(b, 0)
        c3 == Byte(a, 0) * Byte(b, 3) + Byte(a, 1) * Byte(b, 2)
              + Byte(a, 2) * Byte(b, 1) + Byte(a, 3) * Byte(b, 0)
        t0 == c0 + (c1 % 256) * 256
        lo == t0 % 65536
        t1 == (t0 \div 65536) + (c1 \div 256) + c2 + (c3 % 256) * 256
        hi == t1 % 65536
    IN  IF hi >= 32768 THEN (hi - 65536) * 65536 + lo ELSE hi * 65536 + lo

\* truncating division, for b # 0 and not (a = MIN and b = -1)
TruncDiv(a, b) ==
    LET q == Abs(a) \div Abs(b)
    IN  IF b = 1 THEN a
        ELSE IF a = I32Min
        THEN (IF b = I32Min THEN 1
              ELSE LET q1 == (I32Max \div Abs(b)) + (IF I32Max % Abs(b) = Abs(b) - 1 THEN 1 ELSE 0)
                   IN  IF b < 0 THEN q1 ELSE -q1)
        ELSE IF b = I32Min THEN 0
        ELSE IF (a < 0) = (b < 0) THEN q ELSE -q

Ok(v)      == [panic |-> "", v |-> v]
Panics(m)  == [panic |-> m, v |-> 0]

I32Add(a, b) == IF AddOverflows(a, b)
                THEN (IF overflow_checks THEN Panics("attempt to add with overflow")
                      ELSE Ok(WrapAdd(a, b)))
                ELSE Ok(a + b)
I32Sub(a, b) == IF SubOverflows(a, b)
                THEN (IF overflow_checks THEN Panics("attempt to subtract with overflow")
                      ELSE Ok(WrapSub(a, b)))
                ELSE Ok(a - b)
I32Mul(a, b) == IF MulOverflows(a, b)
                THEN (IF overflow_checks THEN Panics("attempt to multiply with overflow")
                      ELSE Ok(WrapMul(a, b)))
                ELSE Ok(a * b)
\* mutant: a zero divisor yields 0 instead of a panic
I32Div_total(a, b) == IF b = 0 THEN Ok(0)
                      ELSE IF a = I32Min /\ b = -1 THEN Panics("attempt to divide with overflow")
                      ELSE Ok(TruncDiv(a, b))
I32Div(a, b) == IF b = 0 THEN Panics("attempt to divide by zero")
                ELSE IF a = I32Min /\ b = -1 THEN Panics("attempt to divide with overflow")
                ELSE Ok(TruncDiv(a, b))
BoolAsI32(c) == IF c THEN 1 ELSE 0

(***************************************************************************)
(* The AST (ast.rs).  Option<T> is a sequence of length 0 (None) or 1.     *)
(***************************************************************************)
None    == <<>>
Some(x) == <<x>>

Number(n)                    == [kind |-> "Number", n |-> n]
Identifier(name)             == [kind |-> "Identifier", name |-> name]
Binary(left, operator, right) ==
    [kind |-> "Binary", left |-> left, operator |-> operator, right |-> right]
Call(name, args)             == [kind |-> "Call", name |-> name, args |-> args]

VarDecl(name, var_type, value) ==
    [kind |-> "VarDecl", name |-> name, var_type |-> var_type, value |-> value]
Assignment(name, value)      == [kind |-> "Assignment", name |-> name, value |-> value]
IfStmt(condition, then_branch, else_branch) ==
    [kind |-> "IfStmt", condition |-> condition, then_branch |-> then_branch,
     else_branch |-> else_branch]
While(condition, body)       == [kind |-> "While", condition |-> condition, body |-> body]
Function(name, params, ret_type, body) ==
    [kind |-> "Function", name |-> name, params |-> params, ret_type |-> ret_type,
     body |-> body]
Return(expr_opt)             == [kind |-> "Return", expr_opt |-> expr_opt]
ExprStmt(e)                  == [kind |-> "ExprStmt", e |-> e]

(***************************************************************************)
(* The instruction set (codegen_bytecode.rs, enum Instr).                  *)
(***************************************************************************)
PushInt(n)        == [op |-> "PushInt", n |-> n]
Load(name)        == [op |-> "Load", name |-> name]
Store(name)       == [op |-> "Store", name |-> name]
Add               == [op |-> "Add"]
Sub               == [op |-> "Sub"]
Mul               == [op |-> "Mul"]
Div               == [op |-> "Div"]
Gt                == [op |-> "Gt"]
Lt                == [op |-> "Lt"]
Eq                == [op |-> "Eq"]
Neq               == [op |-> "Neq"]
Jump(addr)        == [op |-> "Jump", addr |-> addr]
JumpIfFalse(addr) == [op |-> "JumpIfFalse", addr |-> addr]
Pop               == [op |-> "Pop"]
Halt              == [op |-> "Halt"]

(***************************************************************************)
(* The emitter.  An Emitter is [code, panic]; a panic unwinds, so every    *)
(* later step of the compile is skipped.                                   *)
(***************************************************************************)
EmitterNew == [code |-> <<>>, panic |-> ""]

emit(e, instr) == [e EXCEPT !.code = Append(e.code, instr)]

pc(e) == Len(e.code)

\* mutant: the placeholder is never patched
patch_never(e, idx, instr) == e

patch(e, idx, instr) == [e EXCEPT !.code[idx + 1] = instr]

RECURSIVE compile_expr(_, _)
compile_expr(e, expr) ==
    IF e.panic # "" THEN e
    ELSE CASE expr.kind = "Number"     -> emit(e, PushInt(expr.n))
           [] expr.kind = "Identifier" -> emit(e, Load(expr.name))
           [] expr.kind = "Binary" ->
                LET e1 == compile_expr(e, expr.left)
                    e2 == compile_expr(e1, expr.right)
                IN  IF e2.panic # "" THEN e2
                    ELSE CASE expr.operator = "+"  -> emit(e2, Add)
                           [] expr.operator = "-"  -> emit(e2, Sub)
                           [] expr.operator = "*"  -> emit(e2, Mul)
                           [] expr.operator = "/"  -> emit(e2, Div)
                           [] expr.operator = ">"  -> emit(e2, Gt)
                           [] expr.operator = "<"  -> emit(e2, Lt)
                           [] expr.operator = "==" -> emit(e2, Eq)
                           [] expr.operator = "!=" -> emit(e2, Neq)
                           [] OTHER -> [e2 EXCEPT !.panic = "Unknown operator"]

RECURSIVE compile_stmt(_, _)
RECURSIVE compile_stmts(_, _)
compile_stmts(e, stmts) ==
    IF stmts = <<>> THEN e
    ELSE compile_stmts(compile_stmt(e, Head(stmts)), Tail(stmts))

compile_stmt(e, stmt) ==
    IF e.panic # "" THEN e
    ELSE CASE stmt.kind = "VarDecl" ->
                LET e1 == compile_expr(e, stmt.value)
                IN  IF e1.panic # "" THEN e1 ELSE emit(e1, Store(stmt.name))
           [] stmt.kind = "Assignment" ->
                LET e1 == compile_expr(e, stmt.value)
                IN  IF e1.panic # "" THEN e1 ELSE emit(e1, Store(stmt.name))
           [] stmt.kind = "IfStmt" ->
                LET e1 == compile_expr(e, stmt.condition)
                    jmp_if_false_pos == pc(e1)
                    e2 == emit(e1, JumpIfFalse(0))
                    e3 == compile_stmts(e2, stmt.then_branch)
                    after_body == pc(e3)
                IN  IF e1.panic # "" THEN e1
                    ELSE IF e3.panic # "" THEN e3
                    ELSE patch(e3, jmp_if_false_pos, JumpIfFalse(after_body))

\* mutant: no final Halt is emitted
compile_program_no_halt(prog) == compile_stmts(EmitterNew, prog)

compile_program(prog) ==
    LET e == compile_stmts(EmitterNew, prog)
    IN  IF e.panic # "" THEN e ELSE emit(e, Halt)

(***************************************************************************)
(* The VM.  A vm is [ip, stack, vars, status, panic].                      *)
(***************************************************************************)
HashMapNew == [n \in {} |-> 0]

insert(map, k, v) == [n \in (DOMAIN map) \cup {k} |-> IF n = k THEN v ELSE map[n]]

VMNew == [ip |-> 0, stack |-> <<>>, vars |-> HashMapNew, status |-> "running", panic |-> ""]

Panicked(vm, msg) == [vm EXCEPT !.status = "panicked", !.panic = msg]

push(vm, v) == [vm EXCEPT !.stack = Append(vm.stack, v)]

\* mutant: pop().unwrap_or(0), an empty stack yields 0
PopExpect_or(vm, msg) ==
    IF vm.stack = <<>> THEN [vm |-> vm, v |-> 0]
    ELSE [vm |-> [vm EXCEPT !.stack = SubSeq(vm.stack, 1, Len(vm.stack) - 1)],
          v  |-> vm.stack[Len(vm.stack)]]

\* self.stack.pop().expect(msg): the popped vm and the value
PopExpect(vm, msg) ==
    IF vm.stack = <<>> THEN [vm |-> Panicked(vm, msg), v |-> 0]
    ELSE [vm |-> [vm EXCEPT !.stack = SubSeq(vm.stack, 1, Len(vm.stack) - 1)],
          v  |-> vm.stack[Len(vm.stack)]]

Advance(vm) == [vm EXCEPT !.ip = vm.ip + 1]

\* mutant: the first value popped is taken as the left operand
Pop2_swapped(vm, msg) ==
    LET pb == PopExpect(vm, msg)
        pa == PopExpect(pb.vm, msg)
    IN  IF pb.vm.status = "panicked" THEN [vm |-> pb.vm, a |-> 0, b |-> 0]
        ELSE [vm |-> pa.vm, a |-> pb.v, b |-> pa.v]

\* let b = pop().expect(msg); let a = pop().expect(msg);
Pop2(vm, msg) ==
    LET pb == PopExpect(vm, msg)
        pa == PopExpect(pb.vm, msg)
    IN  IF pb.vm.status = "panicked" THEN [vm |-> pb.vm, a |-> 0, b |-> 0]
        ELSE [vm |-> pa.vm, a |-> pa.v, b |-> pb.v]

\* self.stack.push(r); self.ip += 1;   (r panics: the arm unwinds before the push)
PushResult(vm, r) ==
    IF r.panic # "" THEN Panicked(vm, r.panic) ELSE Advance(push(vm, r.v))

BinaryArm(p, r) == IF p.vm.status = "panicked" THEN p.vm ELSE PushResult(p.vm, r)

ExecPushInt(vm, n) == Advance(push(vm, n))

\* mutant: the default is entered into the store (entry(name).or_insert(0))
ExecLoad_insert(vm, name) ==
    LET v == IF name \in DOMAIN vm.vars THEN vm.vars[name] ELSE 0
    IN  Advance(push([vm EXCEPT !.vars = insert(vm.vars, name, v)], v))

ExecLoad(vm, name) ==
    LET v == IF name \in DOMAIN vm.vars THEN vm.vars[name] ELSE 0
    IN  Advance(push(vm, v))

ExecStore(vm, name) ==
    LET p == PopExpect(vm, "stack underflow on Store")
    IN  IF p.vm.status = "panicked" THEN p.vm
        ELSE Advance([p.vm EXCEPT !.vars = insert(p.vm.vars, name, p.v)])

GtI32(a, b)  == Ok(BoolAsI32(a > b))
LtI32(a, b)  == Ok(BoolAsI32(a < b))
EqI32(a, b)  == Ok(BoolAsI32(a = b))
NeqI32(a, b) == Ok(BoolAsI32(a # b))

ExecAdd(vm) ==
    LET p == Pop2(vm, "stack underflow Add") IN BinaryArm(p, I32Add(p.a, p.b))
ExecSub(vm) ==
    LET p == Pop2(vm, "stack underflow Sub") IN BinaryArm(p, I32Sub(p.a, p.b))
ExecMul(vm) ==
    LET p == Pop2(vm, "stack underflow Mul") IN BinaryArm(p, I32Mul(p.a, p.b))
ExecDiv(vm) ==
    LET p == Pop2(vm, "stack underflow Div") IN BinaryArm(p, I32Div(p.a, p.b))
ExecGt(vm) ==
    LET p == Pop2(vm, "stack underflow Gt") IN BinaryArm(p, GtI32(p.a, p.b))
ExecLt(vm) ==
    LET p == Pop2(vm, "stack underflow Lt") IN BinaryArm(p, LtI32(p.a, p.b))
ExecEq(vm) ==
    LET p == Pop2(vm, "stack underflow Eq") IN BinaryArm(p, EqI32(p.a, p.b))
ExecNeq(vm) ==
    LET p == Pop2(vm, "stack underflow Neq") IN BinaryArm(p, NeqI32(p.a, p.b))

ExecJump(vm, addr) == [vm EXCEPT !.ip = addr]

\* mutant: a JumpIfFalse that reads the top of the stack without popping it
ExecJumpIfFalse_peek(vm, addr) ==
    IF vm.stack = <<>> THEN Panicked(vm, "stack underflow JumpIfFalse")
    ELSE IF vm.stack[Len(vm.stack)] = 0 THEN [vm EXCEPT !.ip = addr]
    ELSE Advance(vm)

ExecJumpIfFalse(vm, addr) ==
    LET p == PopExpect(vm, "stack underflow JumpIfFalse")
    IN  IF p.vm.status = "panicked" THEN p.vm
        ELSE IF p.v = 0 THEN [p.vm EXCEPT !.ip = addr]
        ELSE Advance(p.vm)

\* self.stack.pop(); (the Option is dropped: no fault on an empty stack)
ExecPop(vm) ==
    Advance([vm EXCEPT !.stack = IF vm.stack = <<>> THEN <<>>
                                 ELSE SubSeq(vm.stack, 1, Len(vm.stack) - 1)])

\* mutant: the Halt arm does not break out of the loop
ExecHalt_nobreak(vm) == vm

ExecHalt(vm) == [vm EXCEPT !.status = "halted"]

\* one iteration of the loop of VM::run
run_iteration(vm, c) ==
    IF vm.ip >= Len(c) THEN [vm EXCEPT !.status = "ended"]
    ELSE LET i == c[vm.ip + 1]
         IN  CASE i.op = "PushInt"     -> ExecPushInt(vm, i.n)
               [] i.op = "Load"        -> ExecLoad(vm, i.name)
               [] i.op = "Store"       -> ExecStore(vm, i.name)
               [] i.op = "Add"         -> ExecAdd(vm)
               [] i.op = "Sub"         -> ExecSub(vm)
               [] i.op = "Mul"         -> ExecMul(vm)
               [] i.op = "Div"         -> ExecDiv(vm)
               [] i.op = "Gt"          -> ExecGt(vm)
               [] i.op = "Lt"          -> ExecLt(vm)
               [] i.op = "Eq"          -> ExecEq(vm)
               [] i.op = "Neq"         -> ExecNeq(vm)
               [] i.op = "Jump"        -> ExecJump(vm, i.addr)
               [] i.op = "JumpIfFalse" -> ExecJumpIfFalse(vm, i.addr)
               [] i.op = "Pop"         -> ExecPop(vm)
               [] i.op = "Halt"        -> ExecHalt(vm)

TheVM == [ip |-> ip, stack |-> stack, vars |-> vars, status |-> status, panic |-> panic]

SetVM(vm) == /\ ip' = vm.ip
             /\ stack' = vm.stack
             /\ vars' = vm.vars
             /\ status' = vm.status
             /\ panic' = vm.panic

(***************************************************************************)
(* The native lowering engine (codegen_llvm.rs).  A cg is the record of    *)
(* the LLVMCodegen fields, together with the position in the recursive     *)
(* compile_stmt / compile_expr calls: work is the list of what remains to  *)
(* be done (head first), vals the values returned by completed             *)
(* compile_expr calls.  The IR builder is modelled as emitting every       *)
(* operation it is asked to build, at the end of the insertion block.      *)
(***************************************************************************)
CGNew == [module |-> <<>>, builder |-> None, function |-> None, vars_stack |-> <<>>,
          next_val |-> 1, work |-> <<>>, vals |-> <<>>, status |-> "new", panic |-> ""]

\* LLVM values: constants, instruction results, incoming parameters
ConstInt(n)  == [k |-> "const", n |-> n]
InstVal(id)  == [k |-> "inst", n |-> id]
ParamVal(i)  == [k |-> "param", n |-> i]

BlockRef(f, b) == [f |-> f, b |-> b]

CgPanic(cg, msg) == [cg EXCEPT !.status = "panicked", !.panic = msg]

\* module.add_function(name, fn_type, None): the new function is the last one
add_function(cg, name, nparams) ==
    [cg EXCEPT !.module = Append(@, [name |-> name, nparams |-> nparams, blocks |-> <<>>])]

\* module.get_function(name): the first function of that name
get_function(cg, name) ==
    LET S == { i \in 1 .. Len(cg.module) : cg.module[i].name = name }
    IN  IF S = {} THEN None ELSE Some(CHOOSE i \in S : \A j \in S : i <= j)

\* context.append_basic_block(f, label): the new block is the last one of f
append_basic_block(cg, f, label) ==
    [cg EXCEPT !.module[f].blocks = Append(@, [label |-> label, instrs |-> <<>>])]

LastBlock(cg, f) == BlockRef(f, Len(cg.module[f].blocks))

position_at_end(cg, bb) == [cg EXCEPT !.builder = Some(bb)]

\* the builder appends an instruction at the end of the insertion block
Build(cg, instr) ==
    LET bb == cg.builder[1]
    IN  [cg EXCEPT !.module[bb.f].blocks[bb.b].instrs = Append(@, instr)]

\* an instruction with a result takes the next fresh value
BuildVal(cg, instr) == [Build(cg, instr) EXCEPT !.next_val = @ + 1]
Fresh(cg) == InstVal(cg.next_val)

build_alloca(cg, name) == BuildVal(cg, [op |-> "alloca", id |-> cg.next_val, name |-> name])
build_store(cg, ptr, val) == Build(cg, [op |-> "store", ptr |-> ptr, val |-> val])
build_load(cg, ptr, name) ==
    BuildVal(cg, [op |-> "load", id |-> cg.next_val, ptr |-> ptr, name |-> name])
build_int_binop(cg, opname, l, r) ==
    BuildVal(cg, [op |-> opname, id |-> cg.next_val, l |-> l, r |-> r])
build_int_compare(cg, pred, l, r) ==
    BuildVal(cg, [op |-> "icmp", id |-> cg.next_val, pred |-> pred, l |-> l, r |-> r])
build_int_z_extend(cg, v) == BuildVal(cg, [op |-> "zext", id |-> cg.next_val, v |-> v])
build_unconditional_branch(cg, dest) == Build(cg, [op |-> "br", dest |-> dest])
build_conditional_branch(cg, cond, then_bb, else_bb) ==
    Build(cg, [op |-> "condbr", cond |-> cond, then_bb |-> then_bb, else_bb |-> else_bb])
build_return(cg, val) == Build(cg, [op |-> "ret", val |-> val])
build_call(cg, func, args) ==
    BuildVal(cg, [op |-> "call", id |-> cg.next_val, callee |-> func, args |-> args])

push_scope(cg) == [cg EXCEPT !.vars_stack = Append(@, HashMapNew)]

pop_scope(cg) ==
    [cg EXCEPT !.vars_stack = IF @ = <<>> THEN <<>> ELSE SubSeq(@, 1, Len(@) - 1)]

\* self.current_vars().insert(name, ptr)
current_vars_insert(cg, name, ptr) ==
    LET vs == IF cg.vars_stack = <<>> THEN << HashMapNew >> ELSE cg.vars_stack
    IN  [cg EXCEPT !.vars_stack = [vs EXCEPT ![Len(vs)] = insert(@, name, ptr)]]

\* mutant: the scopes are searched from the outermost inward
RECURSIVE lookup_outermost_first(_, _)
lookup_outermost_first(vs, name) ==
    IF vs = <<>> THEN None
    ELSE IF name \in DOMAIN vs[1] THEN Some(vs[1][name])
    ELSE lookup_outermost_first(Tail(vs), name)

\* for map in self.vars_stack.iter().rev() { if let Some(ptr) = map.get(name) .. }
RECURSIVE lookup(_, _)
lookup(vs, name) ==
    IF vs = <<>> THEN None
    ELSE IF name \in DOMAIN vs[Len(vs)] THEN Some(vs[Len(vs)][name])
    ELSE lookup(SubSeq(vs, 1, Len(vs) - 1), name)

\* the cg after the alloca; the slot is Fresh(cg) of the cg before it
create_entry_alloca(cg, name) ==
    IF cg.function = None THEN CgPanic(cg, "function must exist to create entry alloca")
    ELSE IF cg.module[cg.function[1]].blocks = <<>>
    THEN CgPanic(cg, "function entry block expected")
    ELSE LET entry == BlockRef(cg.function[1], 1)
             current_bb == cg.builder
             c1 == build_alloca(position_at_end(cg, entry), name)
         IN  IF current_bb # None THEN position_at_end(c1, current_bb[1]) ELSE c1

\* frames of work
StmtFrame(s) == [k |-> "stmt", s |-> s]
ExprFrame(e) == [k |-> "expr", e |-> e]
StmtFrames(stmts) == [i \in 1 .. Len(stmts) |-> StmtFrame(stmts[i])]
ExprFrames(exprs) == [i \in 1 .. Len(exprs) |-> ExprFrame(exprs[i])]
Todo(cg, frames) == [cg EXCEPT !.work = frames \o @]

PushVal(cg, v) == [cg EXCEPT !.vals = Append(@, v)]
TopVal(cg)     == cg.vals[Len(cg.vals)]
DropVals(cg, n) == [cg EXCEPT !.vals = SubSeq(@, 1, Len(@) - n)]

I32Zero == ConstInt(0)

\* compile_program up to the loop over the statements
ll_compile_program(cg, prog) ==
    LET c1 == add_function(cg, "main", 0)
        main_fn == Len(c1.module)
        c2 == append_basic_block(c1, main_fn, "entry")
        c3 == position_at_end(c2, LastBlock(c2, main_fn))
        c4 == [c3 EXCEPT !.function = Some(main_fn)]
        c5 == push_scope(c4)
    IN  [Todo(c5, StmtFrames(prog) \o << [k |-> "program_end"] >>)
            EXCEPT !.status = "lowering"]

\* compile_program after the loop: return 0 at end of main, pop main scope
ll_program_end(cg) ==
    [pop_scope(build_return(cg, I32Zero)) EXCEPT !.status = "done"]

\* Stmt::VarDecl after compile_expr(value)
ll_VarDecl_store(cg, name) ==
    LET val == TopVal(cg)
        c0  == DropVals(cg, 1)
        ptr == Fresh(c0)
        c1  == create_entry_alloca(c0, name)
    IN  IF c1.status = "panicked" THEN c1
        ELSE current_vars_insert(build_store(c1, ptr, val), name, ptr)

\* Stmt::Assignment after compile_expr(value)
ll_Assignment_store(cg, name) ==
    LET val == TopVal(cg)
        c0  == DropVals(cg, 1)
        ptr == lookup(c0.vars_stack, name)
    IN  IF ptr # None THEN build_store(c0, ptr[1], val)
        ELSE CgPanic(c0, "unknown variable")

\* Stmt::IfStmt after compile_expr(condition), up to the loop over then_branch
ll_If_head(cg, s) ==
    LET cond_val == TopVal(cg)
        c0 == DropVals(cg, 1)
    IN  IF c0.function = None THEN CgPanic(c0, "function exists")
        ELSE
        LET parent == c0.function[1]
            c1 == append_basic_block(c0, parent, "then")
            then_bb == LastBlock(c1, parent)
            c2 == append_basic_block(c1, parent, "else")
            else_bb == LastBlock(c2, parent)
            c3 == append_basic_block(c2, parent, "after_if")
            after_bb == LastBlock(c3, parent)
            cond_bool == Fresh(c3)
            c4 == build_int_compare(c3, "NE", cond_val, I32Zero)
            has_else == s.else_branch # None
            c5 == IF has_else THEN build_conditional_branch(c4, cond_bool, then_bb, else_bb)
                  ELSE build_conditional_branch(c4, cond_bool, then_bb, after_bb)
            c6 == push_scope(position_at_end(c5, then_bb))
        IN  Todo(c6, StmtFrames(s.then_branch)
                     \o << [k |-> "if_then_end", else_branch |-> s.else_branch,
                            else_bb |-> else_bb, after_bb |-> after_bb] >>)

\* Stmt::IfStmt after the loop over then_branch, up to the loop over the else branch
ll_If_then_end(cg, fr) ==
    LET c1 == build_unconditional_branch(pop_scope(cg), fr.after_bb)
    IN  IF fr.else_branch # None
        THEN Todo(push_scope(position_at_end(c1, fr.else_bb)),
                  StmtFrames(fr.else_branch[1])
                  \o << [k |-> "if_else_end", after_bb |-> fr.after_bb] >>)
        ELSE position_at_end(c1, fr.after_bb)

\* Stmt::IfStmt after the loop over the else branch
ll_If_else_end(cg, fr) ==
    position_at_end(build_unconditional_branch(pop_scope(cg), fr.after_bb), fr.after_bb)

\* Stmt::While up to compile_expr(condition)
ll_While_head(cg, s) ==
    IF cg.function = None THEN CgPanic(cg, "function exists")
    ELSE
    LET parent == cg.function[1]
        c1 == append_basic_block(cg, parent, "while_cond")
        cond_bb == LastBlock(c1, parent)
        c2 == append_basic_block(c1, parent, "while_body")
        body_bb == LastBlock(c2, parent)
        c3 == append_basic_block(c2, parent, "while_after")
        after_bb == LastBlock(c3, parent)
        c4 == position_at_end(build_unconditional_branch(c3, cond_bb), cond_bb)
    IN  Todo(c4, << ExprFrame(s.condition),
                    [k |-> "while_cond", body |-> s.body, cond_bb |-> cond_bb,
                     body_bb |-> body_bb, after_bb |-> after_bb] >>)

\* Stmt::While after compile_expr(condition), up to the loop over body
ll_While_cond(cg, fr) ==
    LET cond_val == TopVal(cg)
        c0 == DropVals(cg, 1)
        cond_bool == Fresh(c0)
        c1 == build_int_compare(c0, "NE", cond_val, I32Zero)
        c2 == build_conditional_branch(c1, cond_bool, fr.body_bb, fr.after_bb)
        c3 == push_scope(position_at_end(c2, fr.body_bb))
    IN  Todo(c3, StmtFrames(fr.body)
                 \o << [k |-> "while_end", cond_bb |-> fr.cond_bb, body_bb |-> fr.body_bb,
                        after_bb |-> fr.after_bb] >>)

\* mutant: the body branches back to itself, not to the condition block
ll_While_end_self(cg, fr) ==
    position_at_end(build_unconditional_branch(pop_scope(cg), fr.body_bb), fr.after_bb)

\* Stmt::While after the loop over body
ll_While_end(cg, fr) ==
    position_at_end(build_unconditional_branch(pop_scope(cg), fr.cond_bb), fr.after_bb)

\* the loop over params of Stmt::Function, from parameter i on
RECURSIVE ll_Function_params(_, _, _)
ll_Function_params(cg, params, i) ==
    IF i > Len(params) \/ cg.status = "panicked" THEN cg
    ELSE LET pname == params[i][1]
             alloca == Fresh(cg)
             c1 == create_entry_alloca(cg, pname)
         IN  IF c1.status = "panicked" THEN c1
             ELSE ll_Function_params(
                      current_vars_insert(build_store(c1, alloca, ParamVal(i - 1)), pname, alloca),
                      params, i + 1)

\* Stmt::Function up to the loop over body
ll_Function_head(cg, s) ==
    LET c1 == add_function(cg, s.name, Len(s.params))
        fn == Len(c1.module)
        c2 == append_basic_block(c1, fn, "entry")
        entry == LastBlock(c2, fn)
        previous_fn == cg.function
        c3 == position_at_end([c2 EXCEPT !.function = Some(fn)], entry)
        c4 == ll_Function_params(push_scope(c3), s.params, 1)
    IN  IF c4.status = "panicked" THEN c4
        ELSE Todo(c4, StmtFrames(s.body)
                      \o << [k |-> "function_end", previous_fn |-> previous_fn] >>)

\* mutant: the function's scope is left on the stack
ll_Function_end_keep_scope(cg, fr) ==
    [build_return(cg, I32Zero) EXCEPT !.function = fr.previous_fn]

\* Stmt::Function after the loop over body
ll_Function_end(cg, fr) ==
    [pop_scope(build_return(cg, I32Zero)) EXCEPT !.function = fr.previous_fn]

\* Stmt::Return(Some(expr)) after compile_expr(expr)
ll_Return_value(cg) == build_return(DropVals(cg, 1), TopVal(cg))

\* compile_stmt, up to its first compile_expr / compile_stmt call
ll_compile_stmt(cg, s) ==
    CASE s.kind = "VarDecl" ->
            Todo(cg, << ExprFrame(s.value), [k |-> "vardecl_store", name |-> s.name] >>)
      [] s.kind = "Assignment" ->
            Todo(cg, << ExprFrame(s.value), [k |-> "assignment_store", name |-> s.name] >>)
      [] s.kind = "IfStmt" ->
            Todo(cg, << ExprFrame(s.condition), [k |-> "if_head", s |-> s] >>)
      [] s.kind = "While" -> ll_While_head(cg, s)
      [] s.kind = "Function" -> ll_Function_head(cg, s)
      [] s.kind = "Return" ->
            IF s.expr_opt # None
            THEN Todo(cg, << ExprFrame(s.expr_opt[1]), [k |-> "return_value"] >>)
            ELSE build_return(cg, I32Zero)
      [] s.kind = "ExprStmt" ->
            Todo(cg, << ExprFrame(s.e), [k |-> "drop"] >>)

\* Expr::Identifier
ll_Identifier(cg, name) ==
    LET ptr == lookup(cg.vars_stack, name)
    IN  IF ptr # None THEN PushVal(build_load(cg, ptr[1], name), Fresh(cg))
        ELSE CgPanic(cg, "unknown variable")

\* build_compare: icmp, then zext to i32
build_compare(cg, l, r, pred) ==
    LET cmp == Fresh(cg)
        c1 == build_int_compare(cg, pred, l, r)
    IN  PushVal(build_int_z_extend(c1, cmp), Fresh(c1))

\* Expr::Binary after compile_expr(left) and compile_expr(right)
ll_Binary_op(cg, operator) ==
    LET r == TopVal(cg)
        l == cg.vals[Len(cg.vals) - 1]
        c0 == DropVals(cg, 2)
        arith(opname) == PushVal(build_int_binop(c0, opname, l, r), Fresh(c0))
    IN  CASE operator = "+"  -> arith("add")
          [] operator = "-"  -> arith("sub")
          [] operator = "*"  -> arith("mul")
          [] operator = "/"  -> arith("sdiv")
          [] operator = ">"  -> build_compare(c0, l, r, "SGT")
          [] operator = "<"  -> build_compare(c0, l, r, "SLT")
          [] operator = "==" -> build_compare(c0, l, r, "EQ")
          [] operator = "!=" -> build_compare(c0, l, r, "NE")
          [] OTHER -> CgPanic(c0, "unknown op")

\* mutant: the compiled arguments are handed over last first
ll_Call_emit_reversed(cg, name, nargs) ==
    LET compiled_args == [i \in 1 .. nargs |-> cg.vals[Len(cg.vals) - i + 1]]
        c0 == DropVals(cg, nargs)
        func == get_function(c0, name)
    IN  IF func # None THEN PushVal(build_call(c0, func[1], compiled_args), Fresh(c0))
        ELSE CgPanic(c0, "unknown function")

\* Expr::Call after the loop compiling the arguments
ll_Call_emit(cg, name, nargs) ==
    LET compiled_args == SubSeq(cg.vals, Len(cg.vals) - nargs + 1, Len(cg.vals))
        c0 == DropVals(cg, nargs)
        func == get_function(c0, name)
    IN  IF func # None THEN PushVal(build_call(c0, func[1], compiled_args), Fresh(c0))
        ELSE CgPanic(c0, "unknown function")

\* compile_expr, up to its first recursive call
ll_compile_expr(cg, e) ==
    CASE e.kind = "Number" -> PushVal(cg, ConstInt(e.n))
      [] e.kind = "Identifier" -> ll_Identifier(cg, e.name)
      [] e.kind = "Binary" ->
            Todo(cg, << ExprFrame(e.left), ExprFrame(e.right),
                        [k |-> "binary_op", operator |-> e.operator] >>)
      [] e.kind = "Call" ->
            Todo(cg, ExprFrames(e.args)
                     \o << [k |-> "call_emit", name |-> e.name, nargs |-> Len(e.args)] >>)

\* the next piece of the lowering: the head of work
lower_step(cg) ==
    LET fr == Head(cg.work)
        c  == [cg EXCEPT !.work = Tail(@)]
    IN  CASE fr.k = "stmt"             -> ll_compile_stmt(c, fr.s)
          [] fr.k = "expr"             -> ll_compile_expr(c, fr.e)
          [] fr.k = "vardecl_store"    -> ll_VarDecl_store(c, fr.name)
          [] fr.k = "assignment_store" -> ll_Assignment_store(c, fr.name)
          [] fr.k = "if_head"          -> ll_If_head(c, fr.s)
          [] fr.k = "if_then_end"      -> ll_If_then_end(c, fr)
          [] fr.k = "if_else_end"      -> ll_If_else_end(c, fr)
          [] fr.k = "while_cond"       -> ll_While_cond(c, fr)
          [] fr.k = "while_end"        -> ll_While_end(c, fr)
          [] fr.k = "function_end"     -> ll_Function_end(c, fr)
          [] fr.k = "return_value"     -> ll_Return_value(c)
          [] fr.k = "drop"             -> DropVals(c, 1)
          [] fr.k = "binary_op"        -> ll_Binary_op(c, fr.operator)
          [] fr.k = "call_emit"        -> ll_Call_emit(c, fr.name, fr.nargs)
          [] fr.k = "program_end"      -> ll_program_end(c)

TheCG == [module |-> module, builder |-> builder, function |-> function,
          vars_stack |-> vars_stack, next_val |-> next_val, work |-> work,
          vals |-> vals, status |-> cg_status, panic |-> cg_panic]

SetCG(cg) == /\ module' = cg.module
             /\ builder' = cg.builder
             /\ function' = cg.function
             /\ vars_stack' = cg.vars_stack
             /\ next_val' = cg.next_val
             /\ work' = cg.work
             /\ vals' = cg.vals
             /\ cg_status' = cg.status
             /\ cg_panic' = cg.panic

CGIs(cg) == /\ module = cg.module
            /\ builder = cg.builder
            /\ function = cg.function
            /\ vars_stack = cg.vars_stack
            /\ next_val = cg.next_val
            /\ work = cg.work
            /\ vals = cg.vals
            /\ cg_status = cg.status
            /\ cg_panic = cg.panic

(***************************************************************************)
(* Inputs of the bytecode path: every program of at most MaxNodes          *)
(* statement nodes over the statements the emitter's match handles.        *)
(***************************************************************************)
BConds == { Number(0), Number(1), Binary(Identifier("x"), ">", Number(1)) }

BSimple == { VarDecl("x", "i32", Number(1)),
             Assignment("x", Binary(Identifier("x"), "+", Number(1))),
             VarDecl("q", "i32", Binary(Number(2), "/", Identifier("x"))),
             Assignment("q", Binary(Number(I32Max), "*", Identifier("x"))),
             VarDecl("y", "i32", Binary(Binary(Identifier("q"), "-", Binary(Number(2), "==", Identifier("x"))),
                                        "<", Binary(Identifier("x"), "!=", Identifier("q")))),
             Assignment("x", Binary(Identifier("x"), "%", Number(2))) }

RECURSIVE BBlocks(_)
BBlocks(n) ==
    IF n = 0 THEN { <<>> }
    ELSE { <<s>> \o rest : s \in BSimple, rest \in BBlocks(n - 1) }
         \cup UNION { { <<IfStmt(c, body, None)>> \o rest :
                            c \in BConds, body \in BBlocks(k), rest \in BBlocks(n - 1 - k) }
                      : k \in 0 .. (n - 1) }

BPrograms(max) == UNION { BBlocks(n) : n \in 0 .. max }

(***************************************************************************)
(* The operations the lowering emits, as the backend's target executes     *)
(* them: add, sub and mul are built without nsw/nuw and wrap; sdiv by 0    *)
(* and sdiv of the minimum by -1 are undefined, so is the value loaded     *)
(* from a slot never stored.  An undefined operation can trap or leave     *)
(* any value.                                                              *)
(***************************************************************************)
\* entered: the blocks that branches have transferred control to, in order
NativeIdle == [status |-> "idle", f |-> 0, b |-> 0, pc |-> 0,
               regs |-> HashMapNew, mem |-> HashMapNew, ret |-> 0,
               entered |-> <<>>]

UndefValues == {0, 1, I32Min}

\* the run-time value of an operand
ValueOf(n, v) == IF v.k = "const" THEN v.n ELSE n.regs[v.n]

SetReg(n, id, x) == [n EXCEPT !.regs = insert(@, id, x), !.pc = @ + 1]

Trap(n) == [n EXCEPT !.status = "trapped"]

Undefined(n, id) == { Trap(n) } \cup { SetReg(n, id, x) : x \in UndefValues }

ICmp(pred, l, r) ==
    CASE pred = "SGT" -> l > r
      [] pred = "SLT" -> l < r
      [] pred = "EQ"  -> l = r
      [] pred = "NE"  -> l # r

\* i1 to i32
ZExt(bit) == IF bit THEN 1 ELSE 0

\* control passes to the first operation of block dest
Goto(n, dest) ==
    [n EXCEPT !.f = dest.f, !.b = dest.b, !.pc = 1, !.entered = Append(@, dest)]

\* the states the execution of ins can lead to
exec(n, ins) ==
    CASE ins.op = "alloca" -> { [n EXCEPT !.pc = @ + 1] }
      [] ins.op = "store"  ->
            { [n EXCEPT !.mem = insert(@, ins.ptr.n, ValueOf(n, ins.val)), !.pc = @ + 1] }
      [] ins.op = "load"   ->
            IF ins.ptr.n \in DOMAIN n.mem
            THEN { SetReg(n, ins.id, n.mem[ins.ptr.n]) }
            ELSE Undefined(n, ins.id)
      [] ins.op = "add"    -> { SetReg(n, ins.id, WrapAdd(ValueOf(n, ins.l), ValueOf(n, ins.r))) }
      [] ins.op = "sub"    -> { SetReg(n, ins.id, WrapSub(ValueOf(n, ins.l), ValueOf(n, ins.r))) }
      [] ins.op = "mul"    -> { SetReg(n, ins.id, WrapMul(ValueOf(n, ins.l), ValueOf(n, ins.r))) }
      [] ins.op = "sdiv"   ->
            LET l == ValueOf(n, ins.l)
                r == ValueOf(n, ins.r)
            IN  IF r = 0 \/ (l = I32Min /\ r = -1)
                THEN Undefined(n, ins.id)
                ELSE { SetReg(n, ins.id, TruncDiv(l, r)) }
      [] ins.op = "icmp"   ->
            { SetReg(n, ins.id, ICmp(ins.pred, ValueOf(n, ins.l), ValueOf(n, ins.r))) }
      [] ins.op = "zext"   -> { SetReg(n, ins.id, ZExt(ValueOf(n, ins.v))) }
      [] ins.op = "br"     -> { Goto(n, ins.dest) }
      [] ins.op = "condbr" ->
            { Goto(n, IF ValueOf(n, ins.cond) THEN ins.then_bb ELSE ins.else_bb) }
      [] ins.op = "ret"    -> { [n EXCEPT !.status = "returned", !.ret = ValueOf(n, ins.val)] }
      [] OTHER             -> { [n EXCEPT !.status = "unsupported"] }

(***************************************************************************)
(* Spec: main of the bytecode path, compile_program then VM::new and run.  *)
(***************************************************************************)
Init ==
    /\ program \in BPrograms(MaxNodes)
    /\ overflow_checks \in BOOLEAN
    /\ code = <<>>
    /\ ip = 0 /\ stack = <<>> /\ vars = HashMapNew
    /\ status = "init" /\ panic = ""
    /\ CGIs(CGNew)
    /\ native = NativeIdle

\* mutant: a panicking compile_program leaves the instructions emitted so far
Compile_partial ==
    /\ status = "init"
    /\ LET e == compile_program(program)
       IN  IF e.panic # ""
           THEN /\ status' = "compile_panic" /\ panic' = e.panic
                /\ code' = e.code
                /\ UNCHANGED <<ip, stack, vars>>
           ELSE /\ code' = e.code
                /\ SetVM(VMNew)
    /\ UNCHANGED <<program, overflow_checks>>
    /\ UNCHANGED cgvars
    /\ UNCHANGED native

\* let code = compile_program(&program); let mut vm = VM::new(code);
Compile ==
    /\ status = "init"
    /\ LET e == compile_program(program)
       IN  IF e.panic # ""
           THEN /\ status' = "compile_panic" /\ panic' = e.panic
                /\ UNCHANGED <<code, ip, stack, vars>>
           ELSE /\ code' = e.code
                /\ SetVM(VMNew)
    /\ UNCHANGED <<program, overflow_checks>>
    /\ UNCHANGED cgvars
    /\ UNCHANGED native

\* one iteration of the loop of VM::run
Step ==
    /\ status = "running"
    /\ Len(stack) <= MaxStack
    /\ SetVM(run_iteration(TheVM, code))
    /\ UNCHANGED <<program, overflow_checks, code>>
    /\ UNCHANGED cgvars
    /\ UNCHANGED native

Next == Compile \/ Step

Spec == Init /\ [][Next]_allvars

(***************************************************************************)
(* SpecVM: VM::new(code).run() on raw instruction sequences, not only      *)
(* emitter output.  FairVM adds that the loop of run keeps iterating       *)
(* until it breaks or panics.                                              *)
(***************************************************************************)
RawInstrs(max) ==
    { PushInt(0), PushInt(1), Load("x"), Store("x"),
      Add, Sub, Mul, Div, Gt, Lt, Eq, Neq, Pop, Halt }
    \cup { Jump(a) : a \in 0 .. max }
    \cup { JumpIfFalse(a) : a \in 0 .. max }

\* A Jump to its own index is left out: an iteration of it changes nothing of
\* the VM, so a run looping there would read as a run standing still.
RawCodes(max) ==
    { c \in UNION { [1 .. n -> RawInstrs(max)] : n \in 0 .. max } :
          \A i \in 1 .. Len(c) : c[i].op = "Jump" => c[i].addr # i - 1 }

InitVM ==
    /\ program = <<>>
    /\ overflow_checks \in BOOLEAN
    /\ code \in RawCodes(MaxCode)
    /\ ip = 0 /\ stack = <<>> /\ vars = HashMapNew
    /\ status = "running" /\ panic = ""
    /\ CGIs(CGNew)
    /\ native = NativeIdle

\* the part of a run explored: a loop can count up to the ends of i32
Explored ==
    /\ Len(stack) <= MaxStack
    /\ \A i \in 1 .. Len(stack) : stack[i] \in (-MaxVal) .. MaxVal

RawStep == Explored /\ Step

NextVM == RawStep

SpecVM == InitVM /\ [][NextVM]_allvars

FairVM == SpecVM /\ WF_allvars(RawStep)

(***************************************************************************)
(* SpecLLVM: LLVMCodegen::new, then compile_program(&program).  The        *)
(* inputs are every program of at most MaxLNodes statement nodes over the  *)
(* statements below, and the demo program of main.                         *)
(***************************************************************************)
LConds == { Number(1) }

LSimple == { VarDecl("x", "i32", Number(1)),
             Assignment("x", Binary(Identifier("x"), "+", Number(1))),
             Return(Some(Identifier("x"))),
             ExprStmt(Call("f", << Identifier("x"), Number(2) >>)) }

LParams == { << <<"x", "i32">>, <<"y", "i32">> >>, << >> }

RECURSIVE LBlocks(_)
LBlocks(n) ==
    IF n = 0 THEN { <<>> }
    ELSE { <<s>> \o rest : s \in LSimple, rest \in LBlocks(n - 1) }
         \cup UNION { { <<IfStmt(c, body, None)>> \o rest :
                            c \in LConds, body \in LBlocks(k), rest \in LBlocks(n - 1 - k) }
                      \cup { <<While(c, body)>> \o rest :
                            c \in LConds, body \in LBlocks(k), rest \in LBlocks(n - 1 - k) }
                      \cup { <<Function(IF ps = <<>> THEN "g" ELSE "f", ps, "i32", body)>> \o rest :
                            ps \in LParams, body \in LBlocks(k), rest \in LBlocks(n - 1 - k) }
                      : k \in 0 .. (n - 1) }
         \cup UNION { { <<IfStmt(c, body, Some(els))>> \o rest :
                            c \in LConds, body \in LBlocks(kk[1]), els \in LBlocks(kk[2]),
                            rest \in LBlocks(n - 1 - kk[1] - kk[2]) }
                      : kk \in { q \in (0 .. (n - 1)) \X (0 .. (n - 1)) : q[1] + q[2] <= n - 1 } }

\* the source text of main, as the AST of ast.rs
MainDemo ==
    << Function("add", << <<"a", "i32">>, <<"b", "i32">> >>, "i32",
                << Return(Some(Binary(Identifier("a"), "+", Identifier("b")))) >>),
       VarDecl("x", "i32", Number(5)),
       VarDecl("y", "i32", Number(10)),
       VarDecl("z", "i32", Call("add", << Identifier("x"), Identifier("y") >>)),
       IfStmt(Binary(Identifier("z"), ">", Number(10)),
              << Assignment("z", Binary(Identifier("z"), "+", Number(1))) >>,
              Some(<< Assignment("z", Binary(Identifier("z"), "-", Number(1))) >>)),
       VarDecl("i", "i32", Number(0)),
       While(Binary(Identifier("i"), "<", Number(3)),
             << Assignment("i", Binary(Identifier("i"), "+", Number(1))) >>) >>

\* a block that redeclares a name of the enclosing scope
Shadowing ==
    << VarDecl("x", "i32", Number(1)),
       IfStmt(Identifier("x"),
              << VarDecl("x", "i32", Number(2)),
                 Assignment("x", Binary(Identifier("x"), "*", Number(2))) >>,
              None),
       Assignment("x", Binary(Identifier("x"), "/", Number(2))) >>

LPrograms(max) == UNION { LBlocks(n) : n \in 0 .. max } \cup { MainDemo, Shadowing }

VMIdle ==
    /\ overflow_checks = FALSE
    /\ code = <<>>
    /\ ip = 0 /\ stack = <<>> /\ vars = HashMapNew
    /\ status = "init" /\ panic = ""

InitLLVM ==
    /\ program \in LPrograms(MaxLNodes)
    /\ VMIdle
    /\ CGIs(CGNew)
    /\ native = NativeIdle

\* codegen.compile_program(&program), up to its loop over the statements
CompileProgram ==
    /\ cg_status = "new"
    /\ SetCG(ll_compile_program(TheCG, program))
    /\ UNCHANGED <<program, overflow_checks>>
    /\ UNCHANGED vmvars
    /\ UNCHANGED native

\* the next piece of compile_program / compile_stmt / compile_expr
LowerStep ==
    /\ cg_status = "lowering"
    /\ work # <<>>
    /\ SetCG(lower_step(TheCG))
    /\ UNCHANGED <<program, overflow_checks>>
    /\ UNCHANGED vmvars
    /\ UNCHANGED native

NextLLVM == CompileProgram \/ LowerStep

SpecLLVM == InitLLVM /\ [][NextLLVM]_allvars

(***************************************************************************)
(* Layout of the emitted code, computed from the AST alone.                *)
(***************************************************************************)
RECURSIVE ExprLen(_)
ExprLen(expr) ==
    IF expr.kind = "Binary" THEN ExprLen(expr.left) + ExprLen(expr.right) + 1 ELSE 1

RECURSIVE StmtLen(_)
RECURSIVE BlockLen(_)
BlockLen(stmts) == IF stmts = <<>> THEN 0 ELSE StmtLen(Head(stmts)) + BlockLen(Tail(stmts))
StmtLen(stmt) ==
    IF stmt.kind = "IfStmt" THEN ExprLen(stmt.condition) + 1 + BlockLen(stmt.then_branch)
    ELSE ExprLen(stmt.value) + 1

\* every If of a block laid out from index base: where it starts, where its
\* JumpIfFalse sits, the first index after its then-block, its nesting depth
RECURSIVE IfSites(_, _, _)
IfSites(stmts, base, depth) ==
    IF stmts = <<>> THEN {}
    ELSE LET s == Head(stmts)
             rest == IfSites(Tail(stmts), base + StmtLen(s), depth)
         IN  IF s.kind = "IfStmt"
             THEN {[start |-> base, jpos |-> base + ExprLen(s.condition),
                    after |-> base + StmtLen(s), depth |-> depth]}
                  \cup IfSites(s.then_branch, base + ExprLen(s.condition) + 1, depth + 1)
                  \cup rest
             ELSE rest

\* the index at which each statement (at any depth) starts, and the index of Halt
RECURSIVE StmtStarts(_, _)
StmtStarts(stmts, base) ==
    IF stmts = <<>> THEN {base}
    ELSE LET s == Head(stmts)
         IN  {base}
             \cup (IF s.kind = "IfStmt"
                   THEN StmtStarts(s.then_branch, base + ExprLen(s.condition) + 1)
                   ELSE {})
             \cup StmtStarts(Tail(stmts), base + StmtLen(s))

Compiled == status \in {"running", "halted", "ended", "panicked"}
Stopped  == status \in {"halted", "ended", "panicked"}
Fetch    == code[ip + 1]
AtInstr(opname) == status = "running" /\ ip < Len(code) /\ Fetch.op = opname
Top      == stack[Len(stack)]

(***************************************************************************)
(* C3. Every If compiled by the emitter, at any depth and with a           *)
(* then-block of any length, has its JumpIfFalse patched to the index of   *)
(* the first instruction after the then-block, and no JumpIfFalse of the   *)
(* output keeps the placeholder target; while the VM evaluates the         *)
(* condition the variable store does not change, and executing the         *)
(* JumpIfFalse on a condition value of 0 moves ip to that index (past      *)
(* every instruction of the then-block) and leaves the store unchanged.    *)
(***************************************************************************)
C3_PatchedTargets ==
    Compiled =>
        /\ \A site \in IfSites(program, 0, 1) :
              /\ code[site.jpos + 1] = JumpIfFalse(site.after)
              /\ site.after > site.jpos
        /\ \A i \in 1 .. Len(code) :
              code[i].op = "JumpIfFalse" =>
                  \E site \in IfSites(program, 0, 1) :
                      site.jpos = i - 1 /\ code[i].addr = site.after

C3_FalseSkips ==
    \A site \in IfSites(program, 0, 1) :
        (status = "running" /\ site.start <= ip /\ ip <= site.jpos) =>
            /\ vars' = vars
            /\ (ip = site.jpos /\ Top = 0) =>
                   (ip' = site.after /\ status' = "running" /\ stack' = <<>>)

C3_JumpPatch == [](C3_PatchedTargets) /\ [][C3_FalseSkips]_allvars

\* a nested If with a false condition has been skipped: its then-block's
\* store never ran
C3_Witness ==
    /\ program = << IfStmt(Number(1),
                           << IfStmt(Number(0), << VarDecl("x", "i32", Number(1)) >>, None) >>,
                           None) >>
    /\ status = "halted"
    /\ "x" \notin DOMAIN vars

(***************************************************************************)
(* C4. In the run of a compiled program the operand stack is empty         *)
(* whenever ip stands at a statement boundary (the start of a statement    *)
(* at any depth, or the final Halt), and so it is empty when the run       *)
(* stops at Halt.                                                          *)
(***************************************************************************)
C4_StackBalance ==
    Compiled =>
        /\ ip \in StmtStarts(program, 0) => stack = <<>>
        /\ status = "halted" => (stack = <<>> /\ Fetch = Halt)

C4_Witness ==
    /\ status = "halted"
    /\ Len(program) = 2
    /\ \E i \in 1 .. 2 : program[i].kind = "IfStmt" /\ program[i].then_branch # <<>>
    /\ DOMAIN vars # {}

(***************************************************************************)
(* C7. Div executed with a divisor of 0 on top of the stack faults: no     *)
(* result is pushed, the store is unchanged, and nothing executes after    *)
(* the fault; the run of `let q = 2 / x` with x = 0 ends faulted with q    *)
(* absent from the store.                                                  *)
(***************************************************************************)
C7_DivStep ==
    /\ (AtInstr("Div") /\ Len(stack) >= 2 /\ Top = 0) =>
           /\ status' = "panicked"
           /\ panic' = "attempt to divide by zero"
           /\ stack' = SubSeq(stack, 1, Len(stack) - 2)
           /\ vars' = vars
           /\ ip' = ip
    /\ status = "panicked" => UNCHANGED allvars

C7_DivStore ==
    (/\ program = << VarDecl("q", "i32", Binary(Number(2), "/", Identifier("x"))) >>
     /\ Stopped) =>
        (status = "panicked" /\ "q" \notin DOMAIN vars)

C7_DivByZeroFaults == [](C7_DivStore) /\ [][C7_DivStep]_allvars

C7_Witness ==
    /\ program = << VarDecl("q", "i32", Binary(Number(2), "/", Identifier("x"))) >>
    /\ status = "panicked"
    /\ panic = "attempt to divide by zero"
    /\ code[ip + 1] = Div
    /\ code[ip + 2] = Store("q")
    /\ "q" \notin DOMAIN vars

(***************************************************************************)
(* C9. Load of a name absent from the store pushes 0, advances ip by one,  *)
(* does not fault and leaves the store unchanged (the name stays absent);  *)
(* the compiled `x = x + 1` with x undeclared runs to Halt with x = 1.     *)
(***************************************************************************)
C9_LoadStep ==
    (AtInstr("Load") /\ Fetch.name \notin DOMAIN vars) =>
        /\ stack' = Append(stack, 0)
        /\ ip' = ip + 1
        /\ status' = "running"
        /\ vars' = vars
        /\ Fetch.name \notin DOMAIN vars'

C9_LoadRun ==
    (/\ program = << Assignment("x", Binary(Identifier("x"), "+", Number(1))) >>
     /\ Stopped) =>
        (status = "halted" /\ vars = insert(HashMapNew, "x", 1))

C9_LoadUnsetIsZero == [](C9_LoadRun) /\ [][C9_LoadStep]_allvars

C9_Witness ==
    /\ program = << Assignment("x", Binary(Identifier("x"), "+", Number(1))) >>
    /\ status = "halted"
    /\ vars = insert(HashMapNew, "x", 1)

(***************************************************************************)
(* C5. As claimed: VM::run on any instruction sequence eventually stops    *)
(* (Halt, ip past the end, or a fault).  Runs that leave the explored      *)
(* stack depth or operand magnitude are left out of the statement.         *)
(***************************************************************************)
C5_AlwaysStops == <>(Stopped \/ ~Explored)

(***************************************************************************)
(* C5, amended. VM::run on any instruction sequence in which every Jump   *)
(* and JumpIfFalse target is greater than the index of the jump itself     *)
(* eventually stops: at a Halt, with ip past the end, or with a fault.     *)
(***************************************************************************)
ForwardOnly(c) ==
    \A i \in 1 .. Len(c) : c[i].op \in {"Jump", "JumpIfFalse"} => c[i].addr > i - 1

C5_ForwardStops == ForwardOnly(code) => <>Stopped

\* a forward-only sequence whose jump was taken and whose run ended past the end
C5_Witness ==
    /\ code = << PushInt(0), JumpIfFalse(3), Halt >>
    /\ status = "ended"
    /\ ip = 3

(***************************************************************************)
(* C8. Store on an empty stack, and Add, Sub, Mul, Div, Gt, Lt, Eq, Neq    *)
(* on fewer than two operands, fault with a stack-underflow panic: ip and  *)
(* the store stay as they are and the run is over; none of them completes  *)
(* (advances ip) with fewer operands than it needs.                        *)
(***************************************************************************)
BinaryOps == {"Add", "Sub", "Mul", "Div", "Gt", "Lt", "Eq", "Neq"}

Underflows(msg) ==
    /\ status' = "panicked"
    /\ panic' = msg
    /\ ip' = ip
    /\ vars' = vars

C8_UnderflowStep ==
    /\ (AtInstr("Store") /\ stack = <<>>) => Underflows("stack underflow on Store")
    /\ \A o \in BinaryOps :
          (AtInstr(o) /\ Len(stack) < 2) => Underflows("stack underflow " \o o)
    /\ (AtInstr("Store") /\ status' = "running") => Len(stack) >= 1
    /\ \A o \in BinaryOps : (AtInstr(o) /\ status' = "running") => Len(stack) >= 2
    /\ status = "panicked" => UNCHANGED allvars

C8_StackUnderflowFaults == [][C8_UnderflowStep]_allvars

\* Mul was executed with exactly one operand and faulted
C8_Witness ==
    /\ code = << PushInt(1), Mul, Store("x") >>
    /\ status = "panicked"
    /\ panic = "stack underflow Mul"
    /\ ip = 1
    /\ vars = HashMapNew

(***************************************************************************)
(* SpecBoth: 'let r = e' for an expression of literals and operators is    *)
(* given to the bytecode path, then to the native lowering, and the        *)
(* lowered 'main' is executed.                                             *)
(***************************************************************************)
Literals == {0, 1, -1, I32Max, I32Min}
Operators == {"+", "-", "*", "/", ">", "<", "==", "!="}

RECURSIVE ArithExprs(_)
ArithExprs(n) ==
    IF n = 0 THEN { Number(l) : l \in Literals }
    ELSE UNION { { Binary(a, o, b) : a \in ArithExprs(k), o \in Operators,
                                     b \in ArithExprs(n - 1 - k) } : k \in 0 .. n - 1 }

InitBoth ==
    /\ \E n \in 0 .. MaxOps : \E e \in ArithExprs(n) :
          program = << VarDecl("r", "i32", e) >>
    /\ overflow_checks \in BOOLEAN
    /\ code = <<>>
    /\ ip = 0 /\ stack = <<>> /\ vars = HashMapNew
    /\ status = "init" /\ panic = ""
    /\ CGIs(CGNew)
    /\ native = NativeIdle

\* the native path, once the bytecode path has run
Lower ==
    /\ Stopped
    /\ (CompileProgram \/ LowerStep)

\* the call of the lowered 'main'
EnterMain ==
    /\ cg_status = "done"
    /\ native.status = "idle"
    /\ native' = [native EXCEPT !.status = "running", !.f = 1, !.b = 1, !.pc = 1]
    /\ UNCHANGED <<program, overflow_checks>>
    /\ UNCHANGED vmvars
    /\ UNCHANGED cgvars

\* the next operation of the block being executed
NativeStep ==
    /\ native.status = "running"
    /\ LET instrs == module[native.f].blocks[native.b].instrs
       IN  IF native.pc > Len(instrs)
           THEN \E n \in { Trap(native) } : native' = n
           ELSE \E n \in exec(native, instrs[native.pc]) : native' = n
    /\ UNCHANGED <<program, overflow_checks>>
    /\ UNCHANGED vmvars
    /\ UNCHANGED cgvars

NextBoth == Compile \/ Step \/ Lower \/ EnterMain \/ NativeStep

SpecBoth == InitBoth /\ [][NextBoth]_allvars

(***************************************************************************)
(* Reading the lowered unit.                                               *)
(***************************************************************************)
RECURSIVE CountFunctions(_)
CountFunctions(stmts) ==
    IF stmts = <<>> THEN 0
    ELSE LET s == Head(stmts)
             inner == CASE s.kind = "Function" -> 1 + CountFunctions(s.body)
                        [] s.kind = "While"    -> CountFunctions(s.body)
                        [] s.kind = "IfStmt"   ->
                              CountFunctions(s.then_branch)
                              + (IF s.else_branch = None THEN 0
                                 ELSE CountFunctions(s.else_branch[1]))
                        [] OTHER -> 0
         IN  inner + CountFunctions(Tail(stmts))

Terminators == {"br", "condbr", "ret"}

\* the instructions of a block end in a terminator and hold no other one
WellTerminated(instrs) ==
    /\ instrs # <<>>
    /\ instrs[Len(instrs)].op \in Terminators
    /\ \A i \in 1 .. Len(instrs) - 1 : instrs[i].op \notin Terminators

Lowering == cg_status = "lowering" /\ work # <<>>
Doing(kind) == Lowering /\ Head(work).k = kind

\* the index of the innermost scope binding name, 0 when none does
Innermost(vs, name) ==
    LET S == { i \in 1 .. Len(vs) : name \in DOMAIN vs[i] }
    IN  IF S = {} THEN 0 ELSE CHOOSE i \in S : \A j \in S : j <= i

\* the step appended exactly instr, at the end of the insertion block
Emitted(instr) ==
    LET bb == builder[1]
    IN  module' = [module EXCEPT ![bb.f].blocks[bb.b].instrs = Append(@, instr)]

(***************************************************************************)
(* C1. The lowered unit holds 'main' and one callable per source Function  *)
(* statement, and while a top-level statement is being lowered (the        *)
(* current function is main) nothing is emitted into a block of another    *)
(* callable: stores, branches and main's final return land in main.        *)
(***************************************************************************)
C1_Callables ==
    cg_status = "done" =>
        /\ Len(module) = 1 + CountFunctions(program)
        /\ module[1].name = "main"

C1_TopLevelStep ==
    (Lowering /\ function = Some(1)) =>
        \A f \in 2 .. Len(module) : module'[f] = module[f]

C1_TopLevelInMain == [](C1_Callables) /\ [][C1_TopLevelStep]_allvars

(***************************************************************************)
(* C2. When the lowering is done, every basic block of every callable     *)
(* ends in exactly one terminator: none is without one, and nothing        *)
(* follows a terminator in its block.                                      *)
(***************************************************************************)
C2_OneTerminator ==
    cg_status = "done" =>
        \A f \in 1 .. Len(module) :
            \A b \in 1 .. Len(module[f].blocks) :
                WellTerminated(module[f].blocks[b].instrs)

(***************************************************************************)
(* C10. An identifier read and an assignment target use the slot of the    *)
(* innermost scope binding the name; when no scope binds it the lowering   *)
(* panics and emits nothing.  A scope is pushed on entry to a function     *)
(* body, a then-branch, an else-branch and a loop body and popped on exit, *)
(* a declaration enters the innermost scope only, and after a pop no       *)
(* scope binds a name that only the popped scope bound.                    *)
(***************************************************************************)
C10_Read ==
    (Doing("expr") /\ Head(work).e.kind = "Identifier") =>
        LET name == Head(work).e.name
            i == Innermost(vars_stack, name)
        IN  IF i > 0
            THEN /\ Emitted([op |-> "load", id |-> next_val,
                             ptr |-> vars_stack[i][name], name |-> name])
                 /\ vals' = Append(vals, InstVal(next_val))
                 /\ cg_status' = "lowering"
            ELSE /\ cg_status' = "panicked"
                 /\ cg_panic' = "unknown variable"
                 /\ module' = module

C10_Write ==
    Doing("assignment_store") =>
        LET name == Head(work).name
            i == Innermost(vars_stack, name)
        IN  IF i > 0
            THEN /\ Emitted([op |-> "store", ptr |-> vars_stack[i][name],
                             val |-> vals[Len(vals)]])
                 /\ cg_status' = "lowering"
            ELSE /\ cg_status' = "panicked"
                 /\ cg_panic' = "unknown variable"
                 /\ module' = module

Front(q) == SubSeq(q, 1, Len(q) - 1)
Entered(scope) == vars_stack' = Append(vars_stack, scope)
Left ==
    /\ vars_stack # <<>>
    /\ \A name \in DOMAIN vars_stack[Len(vars_stack)] :
          Innermost(Front(vars_stack), name) = 0 => Innermost(vars_stack', name) = 0

C10_Scopes ==
    /\ Doing("if_head") => Entered(HashMapNew)
    /\ Doing("while_cond") => Entered(HashMapNew)
    /\ (Doing("stmt") /\ Head(work).s.kind = "Function") =>
           /\ Len(vars_stack') = Len(vars_stack) + 1
           /\ Front(vars_stack') = vars_stack
           /\ DOMAIN vars_stack'[Len(vars_stack')]
                  = { Head(work).s.params[i][1] : i \in 1 .. Len(Head(work).s.params) }
    /\ Doing("if_then_end") =>
           /\ Left
           /\ vars_stack' = IF Head(work).else_branch = None THEN Front(vars_stack)
                            ELSE Append(Front(vars_stack), HashMapNew)
    /\ Doing("if_else_end") => (Left /\ vars_stack' = Front(vars_stack))
    /\ Doing("while_end") => (Left /\ vars_stack' = Front(vars_stack))
    /\ Doing("function_end") => (Left /\ vars_stack' = Front(vars_stack))
    /\ (Doing("vardecl_store") /\ cg_status' = "lowering") =>
           /\ Front(vars_stack') = Front(vars_stack)
           /\ vars_stack'[Len(vars_stack')]
                  = insert(vars_stack[Len(vars_stack)], Head(work).name, InstVal(next_val))

SlotOf(name) ==
    LET entry == module[1].blocks[1].instrs
        at == CHOOSE i \in 1 .. Len(entry) :
                  entry[i].op = "alloca" /\ entry[i].name = name
    IN  entry[at].id

BothStopped == Stopped /\ native.status \in {"returned", "trapped"}

C6_BackEndsAgree ==
    BothStopped =>
        /\ (status = "panicked") <=> (native.status = "trapped")
        /\ status # "panicked" =>
              /\ "r" \in DOMAIN vars
              /\ SlotOf("r") \in DOMAIN native.mem
              /\ vars["r"] = native.mem[SlotOf("r")]

(***************************************************************************)
(* Slots and their owners.                                                 *)
(***************************************************************************)
AllocasOf(m, f) ==
    UNION { { m[f].blocks[b].instrs[i].id :
                i \in { j \in 1 .. Len(m[f].blocks[b].instrs) :
                          m[f].blocks[b].instrs[j].op = "alloca" } } :
            b \in 1 .. Len(m[f].blocks) }

\* the function in which slot id is allocated, 0 when in none
OwnerOf(m, id) ==
    LET S == { f \in 1 .. Len(m) : id \in AllocasOf(m, f) }
    IN  IF S = {} THEN 0 ELSE CHOOSE f \in S : TRUE

\* the functions whose lowering is in progress: the current one and those
\* a pending end of Stmt::Function will return to
Enclosing ==
    (IF function = None THEN {} ELSE { function[1] })
    \cup { work[i].previous_fn[1] :
             i \in { j \in 1 .. Len(work) : work[j].k = "function_end"
                                            /\ work[j].previous_fn # None } }

\* the slots to which a parameter called name of function f was stored
ParamSlots(m, f, name) ==
    LET entry == m[f].blocks[1].instrs
    IN  { entry[i].id :
            i \in { j \in 1 .. Len(entry) - 1 :
                      /\ entry[j].op = "alloca" /\ entry[j].name = name
                      /\ entry[j + 1].op = "store" /\ entry[j + 1].val.k = "param" } }

NamedSlots(m, f, name) ==
    LET entry == m[f].blocks[1].instrs
    IN  { entry[i].id :
            i \in { j \in 1 .. Len(entry) :
                      entry[j].op = "alloca" /\ entry[j].name = name } }

\* the instruction the step appended at the insertion block
LastBuilt ==
    LET bb == builder[1]
        instrs == module'[bb.f].blocks[bb.b].instrs
    IN  instrs[Len(instrs)]

(***************************************************************************)
(* C11. While a function body is lowered, every slot a scope binds was     *)
(* allocated by a function whose lowering is in progress, never by a       *)
(* sibling function; and inside a function that has a parameter called     *)
(* name, a read or an assignment of name uses a slot of that function,     *)
(* the parameter's own unless the body redeclared the name.                *)
(***************************************************************************)
C11_NoSiblingSlot ==
    cg_status = "lowering" =>
        \A i \in 1 .. Len(vars_stack) : \A name \in DOMAIN vars_stack[i] :
            OwnerOf(module, vars_stack[i][name].n) \in Enclosing

C11_ParamStep ==
    \A fr \in { "expr", "assignment_store" } :
        (/\ Doing(fr)
         /\ fr = "expr" => Head(work).e.kind = "Identifier"
         /\ function # None /\ function[1] # 1
         /\ cg_status' = "lowering") =>
            LET f == function[1]
                name == IF fr = "expr" THEN Head(work).e.name ELSE Head(work).name
                P == ParamSlots(module, f, name)
            IN  P # {} =>
                  /\ OwnerOf(module, LastBuilt.ptr.n) = f
                  /\ NamedSlots(module, f, name) = P => LastBuilt.ptr.n \in P

C11_ScopeIsolation == [](C11_NoSiblingSlot) /\ [][C11_ParamStep]_allvars

\* x of main is shadowed by the parameter x of f: the body of f reads and
\* writes the parameter's slot
C11_Witness ==
    /\ program = << VarDecl("x", "i32", Number(1)),
                    Function("f", << <<"x", "i32">>, <<"y", "i32">> >>, "i32",
                             << Assignment("x", Binary(Identifier("x"), "+", Number(1))) >>) >>
    /\ cg_status = "done"
    /\ \E a \in ParamSlots(module, 2, "x") :
          /\ OwnerOf(module, a) = 2
          /\ \E i \in 1 .. Len(module[2].blocks[1].instrs) :
                LET ins == module[2].blocks[1].instrs[i]
                IN  ins.op = "load" /\ ins.ptr = InstVal(a)
          /\ \E i \in 1 .. Len(module[2].blocks[1].instrs) :
                LET ins == module[2].blocks[1].instrs[i]
                IN  ins.op = "store" /\ ins.ptr = InstVal(a) /\ ins.val.k = "inst"

(***************************************************************************)
(* C12. A VarDecl, and each parameter of a Function, allocates exactly one *)
(* slot, in the entry block of the function that owns the declaration and  *)
(* with no terminator before it in that block; the store of the initial    *)
(* value is appended to the block being built, a block of the same         *)
(* function.                                                               *)
(***************************************************************************)
NumAllocas(instrs) ==
    Cardinality({ j \in 1 .. Len(instrs) : instrs[j].op = "alloca" })

C12_DeclStep ==
    (Doing("vardecl_store") /\ cg_status' = "lowering") =>
        LET f == function[1]
            a == next_val
            decl == [op |-> "alloca", id |-> a, name |-> Head(work).name]
            entry == module'[f].blocks[1].instrs
        IN  /\ \A g \in 1 .. Len(module) : \A b \in 1 .. Len(module[g].blocks) :
                  NumAllocas(module'[g].blocks[b].instrs)
                      = NumAllocas(module[g].blocks[b].instrs)
                        + (IF g = f /\ b = 1 THEN 1 ELSE 0)
            /\ \E j \in 1 .. Len(entry) :
                  /\ entry[j] = decl
                  /\ \A i \in 1 .. j - 1 : entry[i].op \notin Terminators
            /\ builder[1].f = f
            /\ LastBuilt = [op |-> "store", ptr |-> InstVal(a), val |-> vals[Len(vals)]]

C12_ParamStep ==
    (Doing("stmt") /\ Head(work).s.kind = "Function" /\ cg_status' = "lowering") =>
        LET params == Head(work).s.params
            f == Len(module) + 1
            entry == module'[f].blocks[1].instrs
        IN  /\ Len(module') = f
            /\ Len(module'[f].blocks) = 1
            /\ Len(entry) = 2 * Len(params)
            /\ \A i \in 1 .. Len(params) :
                  /\ entry[2 * i - 1].op = "alloca"
                  /\ entry[2 * i - 1].name = params[i][1]
                  /\ entry[2 * i] = [op |-> "store", ptr |-> InstVal(entry[2 * i - 1].id),
                                     val |-> ParamVal(i - 1)]
            /\ \A g \in 1 .. Len(module) : module'[g] = module[g]

C12_SlotPlacement == [][C12_DeclStep /\ C12_ParamStep]_allvars

(***************************************************************************)
(* C13. A Call first lowers its arguments, left to right, and emits        *)
(* nothing itself until they are done; then the callee is looked up by     *)
(* name among the functions the unit holds at that moment (the function    *)
(* being lowered among them) and the call is appended with the arguments   *)
(* in their order; with no function of that name the lowering panics and   *)
(* no call is emitted.  A top-level call of a name that no earlier         *)
(* statement defines never completes the lowering.                         *)
(***************************************************************************)
RECURSIVE FunctionNames(_)
FunctionNames(stmts) ==
    IF stmts = <<>> THEN {}
    ELSE LET s == Head(stmts)
             inner == CASE s.kind = "Function" -> { s.name } \cup FunctionNames(s.body)
                        [] s.kind = "While"    -> FunctionNames(s.body)
                        [] s.kind = "IfStmt"   ->
                              FunctionNames(s.then_branch)
                              \cup (IF s.else_branch = None THEN {}
                                    ELSE FunctionNames(s.else_branch[1]))
                        [] OTHER -> {}
         IN  inner \cup FunctionNames(Tail(stmts))

C13_ArgsFirst ==
    (Doing("expr") /\ Head(work).e.kind = "Call") =>
        LET e == Head(work).e
            n == Len(e.args)
        IN  /\ module' = module
            /\ vals' = vals
            /\ Len(work') = Len(work) + n
            /\ \A i \in 1 .. n : work'[i] = [k |-> "expr", e |-> e.args[i]]
            /\ work'[n + 1] = [k |-> "call_emit", name |-> e.name, nargs |-> n]

C13_CallStep ==
    Doing("call_emit") =>
        LET name == Head(work).name
            n == Head(work).nargs
            args == SubSeq(vals, Len(vals) - n + 1, Len(vals))
            S == { f \in 1 .. Len(module) : module[f].name = name }
        IN  IF S # {}
            THEN /\ \E f \in S :
                       Emitted([op |-> "call", id |-> next_val, callee |-> f, args |-> args])
                 /\ (function # None /\ S = { function[1] }) =>
                       LastBuilt.callee = function[1]
                 /\ vals' = Append(SubSeq(vals, 1, Len(vals) - n), InstVal(next_val))
                 /\ cg_status' = "lowering"
            ELSE /\ cg_status' = "panicked"
                 /\ cg_panic' = "unknown function"
                 /\ module' = module

C13_NoLaterCallee ==
    (\E i \in 1 .. Len(program) :
        /\ program[i].kind = "ExprStmt"
        /\ program[i].e.kind = "Call"
        /\ program[i].e.name \notin FunctionNames(SubSeq(program, 1, i - 1)))
    => cg_status # "done"

C13_CallLowering == [](C13_NoLaterCallee) /\ [][C13_ArgsFirst /\ C13_CallStep]_allvars

\* the demo of main: add(x, y) loads x, then y, then calls add with the two
\* loaded values in that order
C13_Witness ==
    /\ program = MainDemo
    /\ cg_status = "done"
    /\ \E f \in 1 .. Len(module) : \E b \in 1 .. Len(module[f].blocks) :
          LET instrs == module[f].blocks[b].instrs
          IN  \E i \in 3 .. Len(instrs) :
                 /\ instrs[i - 2].op = "load" /\ instrs[i - 2].name = "x"
                 /\ instrs[i - 1].op = "load" /\ instrs[i - 1].name = "y"
                 /\ instrs[i].op = "call"
                 /\ module[instrs[i].callee].name = "add"
                 /\ instrs[i].args = << InstVal(instrs[i - 2].id), InstVal(instrs[i - 1].id) >>

(***************************************************************************)
(* SpecAbort: one program is given to compile_program of the bytecode      *)
(* emitter and to compile_program of the native lowering.  The programs    *)
(* are those of the bytecode path (an unknown operator and unresolved      *)
(* names among them) and calls of a function that does not exist; the      *)
(* emitter's Stmt and Expr have no Call, so it is given only the former.   *)
(***************************************************************************)
NoCallee ==
    { << ExprStmt(Call("h", << Number(1) >>)) >>,
      << VarDecl("x", "i32", Number(1)),
         VarDecl("z", "i32", Call("h", << Identifier("x") >>)) >> }

AbortPrograms(max) == BPrograms(max) \cup NoCallee

InitAbort ==
    /\ program \in AbortPrograms(MaxANodes)
    /\ overflow_checks = FALSE
    /\ code = <<>>
    /\ ip = 0 /\ stack = <<>> /\ vars = HashMapNew
    /\ status = "init" /\ panic = ""
    /\ CGIs(CGNew)
    /\ native = NativeIdle

CompileBytecode == program \notin NoCallee /\ Compile

NextAbort == CompileBytecode \/ CompileProgram \/ LowerStep

SpecAbort == InitAbort /\ [][NextAbort]_allvars

(***************************************************************************)
(* C14. A compile_program that meets an operator outside + - * / > < ==    *)
(* !=, and a native one that meets an unresolved variable or callee,       *)
(* panics and hands over nothing: the bytecode path has no instruction     *)
(* (not a prefix of the list) and stays so; the native lowering emits      *)
(* nothing in the panicking step and never gets to done.                   *)
(***************************************************************************)
RECURSIVE ExprHasUnknownOp(_)
ExprHasUnknownOp(e) ==
    CASE e.kind = "Binary" -> \/ e.operator \notin Operators
                              \/ ExprHasUnknownOp(e.left)
                              \/ ExprHasUnknownOp(e.right)
      [] e.kind = "Call"   -> \E i \in 1 .. Len(e.args) : ExprHasUnknownOp(e.args[i])
      [] OTHER             -> FALSE

RECURSIVE HasUnknownOp(_)
HasUnknownOp(stmts) ==
    \E i \in 1 .. Len(stmts) :
        LET st == stmts[i]
        IN  CASE st.kind \in {"VarDecl", "Assignment"} -> ExprHasUnknownOp(st.value)
              [] st.kind = "IfStmt" ->
                    \/ ExprHasUnknownOp(st.condition)
                    \/ HasUnknownOp(st.then_branch)
                    \/ (st.else_branch # None /\ HasUnknownOp(st.else_branch[1]))
              [] st.kind = "ExprStmt" -> ExprHasUnknownOp(st.e)
              [] OTHER -> FALSE

C14_NoBytecode ==
    /\ status = "compile_panic" => (code = <<>> /\ HasUnknownOp(program))
    /\ HasUnknownOp(program) => (status \in {"init", "compile_panic"} /\ code = <<>>)
    /\ (HasUnknownOp(program) \/ program \in NoCallee) => cg_status # "done"

\* the step is one of the lowering
Lowers == work' # work \/ cg_status' # cg_status

C14_AbortStep ==
    /\ status = "compile_panic" => (status' = "compile_panic" /\ code' = <<>>)
    /\ cg_status = "panicked" => (cg_status' = "panicked" /\ module' = module)
    /\ (Lowers /\ Doing("binary_op") /\ Head(work).operator \notin Operators) =>
           (cg_status' = "panicked" /\ cg_panic' = "unknown op" /\ module' = module)
    /\ (Lowers /\ Doing("expr") /\ Head(work).e.kind = "Identifier"
          /\ Innermost(vars_stack, Head(work).e.name) = 0) =>
           (cg_status' = "panicked" /\ module' = module)
    /\ (Lowers /\ Doing("assignment_store") /\ Innermost(vars_stack, Head(work).name) = 0) =>
           (cg_status' = "panicked" /\ module' = module)
    /\ (Lowers /\ Doing("call_emit")
          /\ \A f \in 1 .. Len(module) : module[f].name # Head(work).name) =>
           (cg_status' = "panicked" /\ module' = module)

C14_NoPartialOutput == [](C14_NoBytecode) /\ [][C14_AbortStep]_allvars

\* 'let x = 1; x = x % 2': both compiles have panicked at the operator, the
\* emitter after PushInt, Store, Load and PushInt
C14_Witness ==
    /\ program = << VarDecl("x", "i32", Number(1)),
                    Assignment("x", Binary(Identifier("x"), "%", Number(2))) >>
    /\ status = "compile_panic"
    /\ code = <<>>
    /\ compile_program(program).code
           = << PushInt(1), Store("x"), Load("x"), PushInt(2) >>
    /\ cg_status = "panicked"
    /\ cg_panic = "unknown op"

(***************************************************************************)
(* C15: when a VM instruction faults, the operand stack, the variable      *)
(* store and the instruction pointer are those left by the instructions    *)
(* that completed before it: the faulting instruction removed nothing      *)
(* from the stack and stored nothing.                                      *)
(***************************************************************************)
Faults == status = "running" /\ status' = "panicked"

C15_FaultStep == Faults => (stack' = stack /\ vars' = vars /\ ip' = ip)

C15_FaultLeavesState == [][C15_FaultStep]_allvars

\* a division by zero faulted with both of its operands already popped
C15_Witness ==
    /\ status = "panicked"
    /\ ip < Len(code) /\ Fetch.op = "Div"
    /\ panic # "stack underflow Div"
    /\ ip = 2 /\ code[1].op = "PushInt" /\ code[2].op = "PushInt"
    /\ stack = <<>>

(***************************************************************************)
(* C16. Inside a function body a name resolves through that function's     *)
(* own scopes only: a read or an assignment of a name bound by a slot of   *)
(* another callable aborts the lowering, and every load or store built     *)
(* while the body of a function is lowered uses a slot that function       *)
(* allocated.                                                              *)
(***************************************************************************)
C16_OwnSlotStep ==
    \A fr \in { "expr", "assignment_store" } :
        (/\ Doing(fr)
         /\ fr = "expr" => Head(work).e.kind = "Identifier"
         /\ function # None /\ function[1] # 1) =>
            LET f == function[1]
                name == IF fr = "expr" THEN Head(work).e.name ELSE Head(work).name
                at == Innermost(vars_stack, name)
            IN  /\ (at # 0 /\ OwnerOf(module, vars_stack[at][name].n) # f)
                      => cg_status' = "panicked"
                /\ cg_status' = "lowering"
                      => OwnerOf(module, LastBuilt.ptr.n) = f

C16_FunctionOwnScopes == [][C16_OwnSlotStep]_allvars

\* the body of g assigns x of main: the store in g writes the slot that
\* main allocated
C16_Witness ==
    /\ cg_status = "done"
    /\ Len(module) >= 2
    /\ \E b \in 1 .. Len(module[2].blocks) :
       \E i \in 1 .. Len(module[2].blocks[b].instrs) :
          LET ins == module[2].blocks[b].instrs[i]
          IN  /\ ins.op = "store" /\ ins.val.k = "inst"
              /\ OwnerOf(module, ins.ptr.n) = 1
    /\ program[Len(program)].kind = "Function"

(***************************************************************************)
(* C17. The lowering of an If adds a then block and a merge block, and an  *)
(* else block only when the statement has an else branch; its conditional  *)
(* branch goes to then, and otherwise to else when there is one, to merge  *)
(* when there is none; each lowered branch ends with a branch to merge;    *)
(* the statements after the If are lowered into the merge block.           *)
(***************************************************************************)
BlockAt(m, bb) == m[bb.f].blocks[bb.b]

C17_Blocks ==
    (Doing("if_head") /\ function # None) =>
        LET f == function[1]
            has_else == Head(work).s.else_branch # None
        IN  Len(module'[f].blocks)
                = Len(module[f].blocks) + (IF has_else THEN 3 ELSE 2)

C17_Branch ==
    (Doing("if_head") /\ function # None) =>
        LET has_else == Head(work).s.else_branch # None
        IN  /\ LastBuilt.op = "condbr"
            /\ BlockAt(module', LastBuilt.then_bb).label = "then"
            /\ BlockAt(module', LastBuilt.else_bb).label
                   = IF has_else THEN "else" ELSE "after_if"
            /\ LastBuilt.then_bb.f = function[1]
            /\ LastBuilt.else_bb.f = function[1]
            /\ builder' = Some(LastBuilt.then_bb)

C17_BranchEnds ==
    /\ Doing("if_then_end") =>
          /\ Emitted([op |-> "br", dest |-> Head(work).after_bb])
          /\ builder' = Some(IF Head(work).else_branch = None
                             THEN Head(work).after_bb ELSE Head(work).else_bb)
    /\ Doing("if_else_end") =>
          /\ Emitted([op |-> "br", dest |-> Head(work).after_bb])
          /\ builder' = Some(Head(work).after_bb)
    /\ \A fr \in { "if_then_end", "if_else_end" } :
          Doing(fr) => BlockAt(module, Head(work).after_bb).label = "after_if"

C17_IfLowering == [][C17_Blocks /\ C17_Branch /\ C17_BranchEnds]_allvars

\* an If without else branch was lowered: main holds a block 'else' that
\* nothing branches to and nothing was built into
C17_Witness ==
    /\ cg_status = "done"
    /\ Len(program) = 1 /\ program[1].kind = "IfStmt" /\ program[1].else_branch = None
    /\ \E b \in 1 .. Len(module[1].blocks) :
          /\ module[1].blocks[b].label = "else"
          /\ module[1].blocks[b].instrs = <<>>

(***************************************************************************)
(* SpecLoop: a counting loop is lowered and the lowered main is executed.  *)
(*     let i: i32 = k;  while i < l { i = i + 1; }                         *)
(* and the same loop with != as test and with the increment inside an If,  *)
(* for k and l up to MaxIter.  FairLoop adds that the lowering and the     *)
(* execution proceed while they can.                                       *)
(***************************************************************************)
MaxIter == 3

\* no run of a loop of LoopPrograms enters more blocks
MaxEntered == 4 * MaxIter + 4

Increment == Assignment("i", Binary(Identifier("i"), "+", Number(1)))

LoopBodies == { << Increment >>, << IfStmt(Number(1), << Increment >>, None) >> }

\* with != as test the counter starts at or below the limit
LoopPrograms(max) ==
    UNION { { << VarDecl("i", "i32", Number(k)),
                 While(Binary(Identifier("i"), o, Number(l)), body) >> :
              o \in (IF k <= l THEN {"<", "!="} ELSE {"<"}), body \in LoopBodies } :
            k \in 0 .. max, l \in 0 .. max }

InitLoop ==
    /\ program \in LoopPrograms(MaxIter)
    /\ VMIdle
    /\ CGIs(CGNew)
    /\ native = NativeIdle

\* the execution of the lowered main, as far as it is followed
LoopStep ==
    /\ Len(native.entered) <= MaxEntered
    /\ NativeStep

NextLoop == CompileProgram \/ LowerStep \/ EnterMain \/ LoopStep

SpecLoop == InitLoop /\ [][NextLoop]_allvars

FairLoop == SpecLoop /\ WF_allvars(NextLoop)

(***************************************************************************)
(* C18. The lowering of a While adds a check block, a body block and an    *)
(* after block; the block before the loop branches to the check block,     *)
(* the check block branches to the body on a non-zero condition and to     *)
(* the after block otherwise, the block the body ends in branches back to  *)
(* the check block.  The execution of a loop whose condition turns false   *)
(* after N runs of the body enters the body N times, the check block N+1   *)
(* times and the after block once, and reaches the end of main.            *)
(***************************************************************************)
\* how many times the run has entered the block of main labelled label
Entries(label) ==
    Cardinality({ j \in 1 .. Len(native.entered) :
                    /\ native.entered[j].f = 1
                    /\ module[1].blocks[native.entered[j].b].label = label })

\* the number of body runs after which the condition of the loop is false
Iterations ==
    LET k == program[1].value.n
        l == program[2].condition.right.n
    IN  IF k < l THEN l - k ELSE 0

C18_Head ==
    (Doing("stmt") /\ Head(work).s.kind = "While" /\ function # None) =>
        LET f == function[1]
            n == Len(module[f].blocks)
        IN  /\ Len(module'[f].blocks) = n + 3
            /\ module'[f].blocks[n + 1].label = "while_cond"
            /\ module'[f].blocks[n + 2].label = "while_body"
            /\ module'[f].blocks[n + 3].label = "while_after"
            /\ LastBuilt = [op |-> "br", dest |-> BlockRef(f, n + 1)]
            /\ builder' = Some(BlockRef(f, n + 1))

C18_Check ==
    Doing("while_cond") =>
        LET bb == builder[1]
            instrs == module'[bb.f].blocks[bb.b].instrs
            fr == Head(work)
        IN  /\ Len(instrs) = Len(module[bb.f].blocks[bb.b].instrs) + 2
            /\ instrs[Len(instrs) - 1]
                   = [op |-> "icmp", id |-> next_val, pred |-> "NE",
                      l |-> vals[Len(vals)], r |-> I32Zero]
            /\ instrs[Len(instrs)]
                   = [op |-> "condbr", cond |-> InstVal(next_val),
                      then_bb |-> fr.body_bb, else_bb |-> fr.after_bb]
            /\ BlockAt(module, fr.body_bb).label = "while_body"
            /\ BlockAt(module, fr.after_bb).label = "while_after"
            /\ bb = fr.cond_bb
            /\ builder' = Some(fr.body_bb)

C18_Back ==
    Doing("while_end") =>
        /\ Emitted([op |-> "br", dest |-> Head(work).cond_bb])
        /\ BlockAt(module, Head(work).cond_bb).label = "while_cond"
        /\ builder' = Some(Head(work).after_bb)

C18_Counts ==
    /\ Entries("while_body") <= Iterations
    /\ Entries("while_cond") <= Iterations + 1
    /\ Entries("while_after") <= 1
    /\ native.status \notin {"trapped", "unsupported"}
    /\ native.status = "returned" =>
          /\ Entries("while_body") = Iterations
          /\ Entries("while_cond") = Iterations + 1
          /\ Entries("while_after") = 1

C18_Ends == <>(native.status = "returned")

C18_WhileLoop ==
    /\ [][C18_Head /\ C18_Check /\ C18_Back]_allvars
    /\ [](C18_Counts)
    /\ C18_Ends

\* a loop of three iterations has run to the end of main
C18_Witness ==
    /\ native.status = "returned"
    /\ Iterations = 3
    /\ Entries("while_body") = 3
    /\ Entries("while_cond") = 4
    /\ Entries("while_after") = 1
    /\ native.mem[SlotOf("i")] = program[2].condition.right.n

(***************************************************************************)
(* The value of an expression over a variable store, operands left to      *)
(* right, and where the code of each Binary expression lies.               *)
(***************************************************************************)
Apply(operator, a, b) ==
    CASE operator = "+"  -> I32Add(a, b)
      [] operator = "-"  -> I32Sub(a, b)
      [] operator = "*"  -> I32Mul(a, b)
      [] operator = "/"  -> I32Div(a, b)
      [] operator = ">"  -> Ok(BoolAsI32(a > b))
      [] operator = "<"  -> Ok(BoolAsI32(a < b))
      [] operator = "==" -> Ok(BoolAsI32(a = b))
      [] operator = "!=" -> Ok(BoolAsI32(a # b))

RECURSIVE Eval(_, _)
Eval(expr, vs) ==
    CASE expr.kind = "Number"     -> Ok(expr.n)
      [] expr.kind = "Identifier" -> Ok(IF expr.name \in DOMAIN vs THEN vs[expr.name] ELSE 0)
      [] expr.kind = "Binary" ->
            LET l == Eval(expr.left, vs)
                r == Eval(expr.right, vs)
            IN  IF l.panic # "" THEN l
                ELSE IF r.panic # "" THEN r
                ELSE Apply(expr.operator, l.v, r.v)

OpInstr(operator) ==
    CASE operator = "+"  -> Add
      [] operator = "-"  -> Sub
      [] operator = "*"  -> Mul
      [] operator = "/"  -> Div
      [] operator = ">"  -> Gt
      [] operator = "<"  -> Lt
      [] operator = "==" -> Eq
      [] operator = "!=" -> Neq

Comparisons == {">", "<", "==", "!="}

\* every Binary expression inside expr, laid out from index base
RECURSIVE ExprSites(_, _)
ExprSites(expr, base) ==
    IF expr.kind = "Binary"
    THEN {[start |-> base, e |-> expr]}
         \cup ExprSites(expr.left, base)
         \cup ExprSites(expr.right, base + ExprLen(expr.left))
    ELSE {}

RECURSIVE BinarySites(_, _)
BinarySites(stmts, base) ==
    IF stmts = <<>> THEN {}
    ELSE LET s == Head(stmts)
             rest == BinarySites(Tail(stmts), base + StmtLen(s))
         IN  IF s.kind = "IfStmt"
             THEN ExprSites(s.condition, base)
                  \cup BinarySites(s.then_branch, base + ExprLen(s.condition) + 1)
                  \cup rest
             ELSE ExprSites(s.value, base) \cup rest

\* n iterations of the loop of VM::run, fewer when it stops before
RECURSIVE Run(_, _, _)
Run(vm, c, n) ==
    IF n = 0 \/ vm.status # "running" THEN vm
    ELSE Run(run_iteration(vm, c), c, n - 1)

(***************************************************************************)
(* C19. The code of Binary(left, op, right) is the code of left, the code  *)
(* of right, then the one instruction of op.  Run from any stack S it      *)
(* leaves, unless it faults, S with one more value on top, the value of    *)
(* left OP the value of right in that order of operands, 1 or 0 for a      *)
(* comparison, and the store as it was; the instruction of op always       *)
(* finds its two operands on the stack.                                    *)
(***************************************************************************)
C19_Layout ==
    Compiled =>
        \A site \in BinarySites(program, 0) :
            SubSeq(code, site.start + 1, site.start + ExprLen(site.e))
                = compile_expr(EmitterNew, site.e.left).code
                  \o compile_expr(EmitterNew, site.e.right).code
                  \o << OpInstr(site.e.operator) >>

C19_Value ==
    status = "running" =>
        \A site \in BinarySites(program, 0) :
            ip = site.start =>
                LET l == Eval(site.e.left, vars)
                    r == Eval(site.e.right, vars)
                    vm == Run(TheVM, code, ExprLen(site.e))
                IN  IF l.panic # "" \/ r.panic # ""
                       \/ Apply(site.e.operator, l.v, r.v).panic # ""
                    THEN vm.status = "panicked"
                    ELSE /\ vm.status = "running"
                         /\ vm.ip = site.start + ExprLen(site.e)
                         /\ vm.vars = vars
                         /\ vm.stack = Append(stack, Apply(site.e.operator, l.v, r.v).v)
                         /\ site.e.operator \in Comparisons
                                => vm.stack[Len(vm.stack)] \in {0, 1}

C19_NoUnderflow ==
    \A o \in BinaryOps : AtInstr(o) => Len(stack) >= 2

C19_BinaryExpr == C19_Layout /\ C19_Value /\ C19_NoUnderflow

\* 2 / x has just been computed with x = 1, under a pending operand or not
C19_Witness ==
    /\ status = "running"
    /\ \E site \in BinarySites(program, 0) :
          /\ site.e = Binary(Number(2), "/", Identifier("x"))
          /\ ip = site.start + ExprLen(site.e)
    /\ "x" \in DOMAIN vars /\ vars["x"] = 1
    /\ stack = << 2 >>

(***************************************************************************)
(* C20. The code the emitter returns holds one Halt, its last instruction, *)
(* no Jump and no Pop, and every JumpIfFalse at index i has a target t     *)
(* with i < t <= index of Halt.  So every iteration of the run that does   *)
(* not stop it moves ip strictly forward, and the run stops within as      *)
(* many iterations as the code has instructions, at the final Halt or at   *)
(* a fault: ip never passes the end and never goes back.                   *)
(***************************************************************************)
HaltIndex == Len(code) - 1

C20_Shape ==
    Compiled =>
        /\ code # <<>>
        /\ code[Len(code)] = Halt
        /\ \A i \in 1 .. Len(code) :
              /\ code[i].op = "Halt" => i = Len(code)
              /\ code[i].op \notin {"Jump", "Pop"}
              /\ code[i].op = "JumpIfFalse"
                     => (i - 1 < code[i].addr /\ code[i].addr <= HaltIndex)

C20_Bounded ==
    /\ Compiled => (ip <= HaltIndex /\ status # "ended")
    /\ status = "halted" => (ip = HaltIndex /\ Fetch = Halt)
    /\ (status = "running" /\ ip = 0 /\ stack = <<>> /\ vars = HashMapNew) =>
           Run(TheVM, code, Len(code)).status \in {"halted", "panicked"}
    /\ status = "running" =>
           Run(TheVM, code, Len(code) - ip).status \in {"halted", "panicked"}

C20_Forward ==
    status = "running" =>
        \/ status' = "running" /\ ip' > ip
        \/ status' \in {"halted", "panicked"} /\ ip' = ip
        \/ UNCHANGED allvars

C20_RunStops == [](C20_Shape /\ C20_Bounded) /\ [][C20_Forward]_allvars

\* a false condition jumped straight to the final Halt, where the run stopped
C20_Witness ==
    /\ status = "halted"
    /\ ip = HaltIndex
    /\ \E i \in 1 .. Len(code) - 2 :
          /\ code[i].op = "JumpIfFalse"
          /\ code[i].addr = HaltIndex
    /\ code[Len(code) - 1].op = "Store"
    /\ vars = HashMapNew

====
